---- MODULE Spec2Model ----
(***************************************************************************)
(* A model of keops/config/config.py: the cache folder initialisation, the *)
(* build folder setter, the assembly of the compiler flags, the detection  *)
(* of cuda and the preloading of the cuda libraries.                       *)
(*                                                                         *)
(* A text file is modelled by the set of its contents: {} when the file    *)
(* does not exist, {t} when it holds the text t.  The version stamp is a   *)
(* sequence of characters (rstrip needs them); paths are strings; a string *)
(* of compiler flags is the sequence of its flags.                         *)
(***************************************************************************)
EXTENDS Naturals, Sequences, FiniteSets, TLC

\* ---------------------------------------------------------------- bounds
MaxStarts == 2      \* process starts (imports of config.py) in one behaviour
MaxDevices == 1     \* largest device count get_gpu_props may report
NumThreads == 3     \* threads that call init_cudalibs

\* ------------------------------------------------------- values and paths
None == "None"                      \* Python's None

V10 == <<"1", ".", "0">>
V11 == <<"1", ".", "1">>
Versions == {V10, V11}              \* values of keops.__version__
Whitespace == {" ", "\n", "\t"}

\* str.rstrip(): the text without its trailing whitespace
RECURSIVE rstrip(_)
rstrip(s) ==
    IF s # <<>> /\ s[Len(s)] \in Whitespace
    THEN rstrip(SubSeq(s, 1, Len(s) - 1))
    ELSE s

\* os.path.join of a directory and a relative name
join(a, b) == IF a = "" THEN b ELSE a \o "/" \o b

base_dir_path == "/site-packages/keops"
bindings_source_dir == base_dir_path
keops_cache_folder == "~/.cache/keops"
default_build_path == join(keops_cache_folder, "build")
UserPaths == {"/p1"}                \* build folders a caller may ask for
Signatures == {"k1"}                \* kernel signatures a consumer may request
launcher_name == "keops_nvrtc.so"

\* the directories that shutil.rmtree(keops_cache_folder) removes
UnderCache == {keops_cache_folder, default_build_path}

\* the content of an existing text file
Content(f) == CHOOSE t \in f : TRUE

\* os.path.exists of the path of a binary file
exists(fs, p) == \E f \in fs : join(f.dir, f.name) = p

\* ------------------------------------------------------------------ state
VARIABLES
    env,                \* the machine and the edited lines 10-11 of config.py
    fs_root,            \* os.path.exists(keops_cache_folder)
    fs_version,         \* the file keops_version of the cache folder
    fs_save,            \* the file build_folder_location.txt of the cache folder
    fs_dirs,            \* the build directories that exist
    fs_files,           \* the binary files (launchers, kernels): [dir, name]
    pc,                 \* where the process is: stopped, the import's steps, ready
    starts,             \* process starts so far
    keops_version,      \* keops.__version__ of the running process
    build_path, jit_binary, use_cuda, use_OpenMP, cpp_flags, cuda_available,
    gpu,                \* cuda_version, nvrtc_flags, ... of lines 125-152
    warnings,           \* the KeOps_Warning diagnostics of the process, in order
    unflushed,          \* text written to the never-closed file f of line 58
    registry,           \* the loaded kernel handles: [sig, path]
    save_folder,        \* the folder the registry loads and builds under
    init_cudalibs_flag,
    loaded,             \* how many times each library was loaded by CDLL
    tpc,                \* each thread's position in init_cudalibs
    last                \* history: the last operation, its inputs and outcome

fsvars == <<fs_root, fs_version, fs_save, fs_dirs, fs_files>>
modvars == <<build_path, jit_binary, use_cuda, use_OpenMP, cpp_flags,
             cuda_available, gpu, warnings>>
regvars == <<registry, save_folder>>
libvars == <<init_cudalibs_flag, loaded, tpc>>
vars == <<env, fsvars, pc, starts, keops_version, modvars, unflushed,
          regvars, libvars, last>>

Unbound == "<unbound>"              \* a module global not assigned yet
Threads == 1..NumThreads

NoGpu == [cuda_version |-> Unbound, libcuda_folder |-> Unbound,
          libnvrtc_folder |-> Unbound, nvrtc_flags |-> Unbound,
          nvrtc_include |-> Unbound, cuda_include_path |-> Unbound,
          jit_source_file |-> Unbound, jit_source_header |-> Unbound]

NoLoads == [l \in {"nvrtc", "cuda", "cudart"} |-> 0]
AllIdle == [t \in Threads |-> "idle"]

\* ------------------------------------------------------------ environment
\* what the machine answers and how lines 10-11 of config.py were edited
Envs ==
    [system : {"Darwin", "Linux"},          \* platform.system()
     KMP_DUPLICATE_LIB_OK : {"TRUE", None}, \* os.getenv(...)
     libs : SUBSET {"cuda", "nvrtc"},       \* the names find_library resolves
     nGpus : 0..MaxDevices,                 \* get_gpu_props()[0]
     use_cuda : BOOLEAN,                    \* line 10
     use_OpenMP : BOOLEAN]                  \* line 11

\* a machine as config.py is shipped: a Linux host, lines 10-11 as written
ShippedEnvs ==
    {e \in Envs : /\ e.system = "Linux" /\ e.KMP_DUPLICATE_LIB_OK = None
                  /\ e.use_OpenMP /\ e.use_cuda
                  /\ e.libs \in {{}, {"cuda", "nvrtc"}}
                  /\ e.nGpus = MaxDevices}

\* the version stamps earlier runs may have left (this code writes no newline)
Stamps == Versions \cup {Append(V11, "\n")}

\* binaries an earlier run left under the default build folder
PriorFiles == {[dir |-> default_build_path, name |-> launcher_name],
               [dir |-> default_build_path, name |-> "k1"]}

\* the file system before a start: no cache folder, or one left by an earlier
\* run (with its stamp, or without when that run was interrupted at line 36)
InitFS ==
    \/ /\ fs_root = FALSE /\ fs_version = {} /\ fs_save = {}
       /\ fs_dirs = {} /\ fs_files = {}
    \/ /\ fs_root = TRUE
       /\ fs_version \in {{}} \cup {{s} : s \in Stamps}
       /\ fs_save \in {{}} \cup {{p} : p \in {default_build_path} \cup UserPaths}
       /\ fs_dirs = {default_build_path} \cup fs_save
       /\ fs_files \in {{}, PriorFiles}

InitProcess ==
    /\ pc = "stopped" /\ starts = 0
    /\ keops_version = V10
    /\ build_path = Unbound /\ jit_binary = Unbound
    /\ use_cuda = env.use_cuda /\ use_OpenMP = env.use_OpenMP
    /\ cpp_flags = <<>> /\ cuda_available = FALSE
    /\ gpu = NoGpu /\ warnings = <<>>
    /\ unflushed = {}
    /\ registry = {} /\ save_folder = Unbound
    /\ init_cudalibs_flag = FALSE /\ loaded = NoLoads /\ tpc = AllIdle
    /\ last = [op |-> "none"]

Init == env \in Envs /\ InitFS /\ InitProcess

\* the module globals of a process that has not imported config.py
Unload ==
    /\ build_path' = Unbound /\ jit_binary' = Unbound
    /\ use_cuda' = env.use_cuda /\ use_OpenMP' = env.use_OpenMP
    /\ cpp_flags' = <<>> /\ cuda_available' = FALSE
    /\ gpu' = NoGpu /\ warnings' = <<>>
    /\ registry' = {} /\ save_folder' = Unbound
    /\ init_cudalibs_flag' = FALSE /\ loaded' = NoLoads /\ tpc' = AllIdle

\* ------------------------------------------------------------ the import
\* A process starts and imports keops.config.config: lines 1-18.
Start(v) ==
    /\ pc = "stopped" /\ starts < MaxStarts
    /\ pc' = "init_cache" /\ starts' = starts + 1
    /\ keops_version' = v
    /\ last' = [op |-> "start"]
    /\ UNCHANGED <<env, fsvars, modvars, unflushed, regvars, libvars>>

\* a slip: an existing cache folder is never reinitialised
test_init_cache_never(root, stamp, v) == ~root

\* a slip: the stamp is compared as read, trailing whitespace included
test_init_cache_raw(root, stamp, v) ==
    IF root THEN Content(stamp) # v ELSE TRUE

\* lines 22-34: whether the cache folder is (re)initialised.  stamp is the
\* file keops_version; reading it when it does not exist raises.
test_init_cache(root, stamp, v) ==
    IF root THEN rstrip(Content(stamp)) # v ELSE TRUE

\* shutil.rmtree(keops_cache_folder), line 28
rmtree_dirs(ds) == ds \ UnderCache
rmtree_files(fs) == {f \in fs : f.dir \notin UnderCache}

\* lines 21-39, the initialisation of the cache folder
InitCache ==
    /\ pc = "init_cache"
    /\ last' = [op |-> "init_cache", root |-> fs_root, stamp |-> fs_version,
                save |-> fs_save, dirs |-> fs_dirs, files |-> fs_files]
    /\ IF fs_root /\ fs_version = {}
       THEN \* line 23: open() raises FileNotFoundError, the import fails
            /\ pc' = "failed"
            /\ UNCHANGED fsvars
       ELSE /\ pc' = "set_build_folder"
            /\ IF test_init_cache(fs_root, fs_version, keops_version)
               THEN /\ fs_root' = TRUE                      \* line 36
                    /\ fs_version' = {keops_version}        \* lines 37-39
                    /\ fs_save' = IF fs_root THEN {} ELSE fs_save
                    /\ fs_dirs' = IF fs_root THEN rmtree_dirs(fs_dirs) ELSE fs_dirs
                    /\ fs_files' = IF fs_root THEN rmtree_files(fs_files) ELSE fs_files
               ELSE UNCHANGED fsvars
    /\ UNCHANGED <<env, starts, keops_version, modvars, unflushed, regvars, libvars>>

\* ------------------------------------------------------- set_build_folder
\* a slip: the saved location is preferred to the path argument
ResolvePath_saved_first(path, read_save_file, save) ==
    IF read_save_file /\ save # {}
    THEN Content(save)
    ELSE IF ~(path = None \/ path = "") THEN path ELSE default_build_path

\* lines 48-54: the path set_build_folder uses.  save is the saved-location
\* file; `not path` holds of None and of the empty string.
ResolvePath(path, read_save_file, save) ==
    IF ~(path = None \/ path = "")
    THEN path
    ELSE IF read_save_file /\ save # {}
         THEN Content(save)
         ELSE default_build_path

\* the launcher the reset step looks for and builds (Gpu_link_compile)
jit_compile_dll(bp) == join(bp, launcher_name)

\* get_keops_dll.reset(new_save_folder): the registry forgets every handle
reset(reg) == {}

\* a slip: the reset of line 61 is left out
registry_after_keep(reset_all, reg) == reg

\* lines 60-61: the registry after the call
registry_after(reset_all, reg) == IF reset_all THEN reset(reg) ELSE reg
folder_after(reset_all, p, folder) == IF reset_all THEN p ELSE folder

\* lines 62-66: whether the launcher is looked for and found missing
launcher_missing(reset_all, cuda, fs, p) ==
    reset_all /\ cuda /\ ~exists(fs, jit_compile_dll(p))

\* How a call ends.  os.makedirs("") raises FileNotFoundError (line 57); the
\* build of the launcher raises when the toolchain fails (ok = FALSE).
Outcome(p, reset_all, ok) ==
    IF p = "" THEN "makedirs_error"
    ELSE IF launcher_missing(reset_all, use_cuda, fs_files, p) /\ ~ok
         THEN "build_error"
         ELSE "return"

\* lines 58-59 and the end of the call: f is never closed by the code.  When
\* the call returns, CPython drops the last reference to f and its buffer
\* reaches the file; when the call raises, the traceback keeps the frame and
\* f alive, and the file stays as open(save_file, "w") truncated it.
saved_text(out, p) == IF out = "return" THEN {p} ELSE {""}
buffered_text(out, p) == IF out = "return" THEN {} ELSE {p}

\* lines 46-66 (build_path is "", line 44, before the first call)
set_build_folder(path, read_save_file, reset_all, ok) ==
    LET p == ResolvePath(path, read_save_file, fs_save)
        out == Outcome(p, reset_all, ok)
    IN  /\ build_path' = p                                      \* line 56
        /\ last' = [op |-> "set_build_folder", path |-> path,
                    read_save_file |-> read_save_file, reset_all |-> reset_all,
                    saved |-> fs_save,
                    old_path |-> IF build_path = Unbound THEN "" ELSE build_path,
                    old_registry |-> registry, out |-> out]
        /\ IF out = "makedirs_error"
           THEN UNCHANGED <<fsvars, unflushed, regvars>>
           ELSE /\ fs_dirs' = fs_dirs \cup {p}                  \* line 57
                /\ fs_save' = saved_text(out, p)                \* lines 58-59
                /\ unflushed' = buffered_text(out, p)
                /\ registry' = registry_after(reset_all, registry)
                /\ save_folder' = folder_after(reset_all, p, save_folder)
                /\ fs_files' =
                     IF launcher_missing(reset_all, use_cuda, fs_files, p)
                        /\ out = "return"
                     THEN fs_files \cup {[dir |-> p, name |-> launcher_name]}
                     ELSE fs_files
                /\ UNCHANGED <<fs_root, fs_version>>

\* lines 44-73: build_path = "", the first call of set_build_folder and the
\* path of the launcher, computed once
ImportSetBuildFolder ==
    /\ pc = "set_build_folder"
    /\ set_build_folder(None, TRUE, FALSE, TRUE)
    /\ IF last'.out = "return"
       THEN /\ jit_binary' = join(build_path', launcher_name)   \* line 73
            /\ pc' = "cpp_flags"
       ELSE /\ jit_binary' = jit_binary
            /\ pc' = "failed"
    /\ UNCHANGED <<env, starts, keops_version, use_cuda, use_OpenMP, cpp_flags,
                   cuda_available, gpu, warnings, libvars>>

\* ------------------------------------------------------ the compiler flags
compile_options == <<"-shared", "-fPIC", "-O3", "-std=c++11">>     \* line 77

\* lines 84-96: the flags the OpenMP block adds
openmp_flags(omp, system, kmp) ==
    IF omp
    THEN IF system = "Darwin"
         THEN IF ~(kmp = "TRUE") THEN <<>>
              ELSE <<"-Xclang", "-fopenmp", "-lomp">>
         ELSE <<"-fopenmp", "-fno-fat-lto-objects">>
    ELSE <<>>

\* lines 87-92: OpenMP is switched off on a Mac without the environment marker
openmp_disabled(omp, system, kmp) ==
    omp /\ system = "Darwin" /\ ~(kmp = "TRUE")

\* lines 99-100
platform_flags(system) ==
    IF system = "Darwin" THEN <<"-undefined", "dynamic_lookup">> ELSE <<>>

\* a slip: the platform flags are appended before the OpenMP flags
assemble_cpp_flags_platform_first(omp, system, kmp) ==
    compile_options \o <<"-flto">>
        \o platform_flags(system)
        \o openmp_flags(omp, system, kmp)
        \o <<"-I" \o bindings_source_dir>>

\* lines 81-102: cpp_flags when every line runs
assemble_cpp_flags(omp, system, kmp) ==
    compile_options \o <<"-flto">>
        \o openmp_flags(omp, system, kmp)
        \o platform_flags(system)
        \o <<"-I" \o bindings_source_dir>>

\* line 85: `import platform` runs only inside `if use_OpenMP:`, so the name
\* platform is bound at line 99 only when use_OpenMP was true at line 84
platform_bound(omp) == omp

\* lines 75-102
AssembleFlags ==
    /\ pc = "cpp_flags"
    /\ IF platform_bound(use_OpenMP)
       THEN /\ cpp_flags' = assemble_cpp_flags(use_OpenMP, env.system,
                                               env.KMP_DUPLICATE_LIB_OK)
            /\ use_OpenMP' = (use_OpenMP /\ ~openmp_disabled(use_OpenMP,
                                   env.system, env.KMP_DUPLICATE_LIB_OK))
            /\ warnings' = IF openmp_disabled(use_OpenMP, env.system,
                                              env.KMP_DUPLICATE_LIB_OK)
                           THEN Append(warnings, "openmp_disabled_on_mac")
                           ELSE warnings
            /\ pc' = "cuda"
            /\ last' = [op |-> "cpp_flags", out |-> "return"]
       ELSE \* line 99 raises NameError: the import fails
            /\ cpp_flags' = compile_options \o <<"-flto">>      \* line 81
            /\ pc' = "failed"
            /\ last' = [op |-> "cpp_flags", out |-> "NameError"]
            /\ UNCHANGED <<use_OpenMP, warnings>>
    /\ UNCHANGED <<env, fsvars, starts, keops_version, build_path, jit_binary,
                   use_cuda, cuda_available, gpu, unflushed, regvars, libvars>>

\* ------------------------------------------------------------------- cuda
cuda_dependencies == {"cuda", "nvrtc"}                              \* line 107

\* line 108: all([find_library(lib) for lib in cuda_dependencies])
libs_found(libs) == cuda_dependencies \subseteq libs

\* lines 108-112
cuda_available_of(libs, n) == IF libs_found(libs) THEN n > 0 ELSE FALSE

\* get_gpu_props warns when it finds no device (the comment of line 109)
get_gpu_props_warnings(n) == IF n > 0 THEN <<>> ELSE <<"no_gpu_found">>

\* lines 108-120: the diagnostics of the detection, in order
probe_warnings(libs, n, cuda) ==
    (IF libs_found(libs) THEN get_gpu_props_warnings(n)
                         ELSE <<"cuda_libs_not_detected">>)
    \o (IF ~cuda /\ cuda_available_of(libs, n)
        THEN <<"cuda_available_but_disabled">> ELSE <<>>)

\* a slip: use_cuda is not switched off when cuda is unavailable
use_cuda_kept(cuda, available) == cuda

\* lines 122-123: use_cuda after the detection
use_cuda_after(cuda, available) == IF cuda /\ ~available THEN FALSE ELSE cuda

\* what keops.utils.gpu_utils reports on a machine with cuda
libcuda_folder == "/usr/lib/cuda"
libnvrtc_folder == "/usr/lib/nvrtc"
get_cuda_include_path == "/usr/include/cuda"
get_cuda_version == "11"

\* lines 125-152
gpu_settings(cuda) ==
    IF cuda
    THEN [cuda_version |-> get_cuda_version,
          libcuda_folder |-> libcuda_folder,
          libnvrtc_folder |-> libnvrtc_folder,
          nvrtc_flags |-> compile_options
                \o <<"-fpermissive", "-L" \o libcuda_folder,
                     "-L" \o libnvrtc_folder, "-lcuda", "-lnvrtc">>,
          nvrtc_include |-> <<"-I" \o bindings_source_dir,
                              "-I" \o get_cuda_include_path>>,
          cuda_include_path |-> get_cuda_include_path,
          jit_source_file |-> join(base_dir_path, "binders/nvrtc/keops_nvrtc.cpp"),
          jit_source_header |-> join(base_dir_path, "binders/nvrtc/keops_nvrtc.h")]
    ELSE [cuda_version |-> None, libcuda_folder |-> None,
          libnvrtc_folder |-> None, nvrtc_flags |-> None,
          nvrtc_include |-> None, cuda_include_path |-> None,
          jit_source_file |-> None, jit_source_header |-> None]

\* a slip: line 153 is left out
jit_binary_kept(cuda, jb) == jb

\* line 153: jit_binary is unset in cpu only mode
jit_binary_after(cuda, jb) == IF cuda THEN jb ELSE None

\* lines 105-155; the import ends and the registry starts under build_path
ProbeCuda ==
    /\ pc = "cuda"
    /\ cuda_available' = cuda_available_of(env.libs, env.nGpus)
    /\ warnings' = warnings \o probe_warnings(env.libs, env.nGpus, use_cuda)
    /\ use_cuda' = use_cuda_after(use_cuda, cuda_available')
    /\ gpu' = gpu_settings(use_cuda')
    /\ jit_binary' = jit_binary_after(use_cuda', jit_binary)
    /\ save_folder' = build_path
    /\ pc' = "ready"
    /\ last' = [op |-> "cuda", use_cuda |-> use_cuda]
    /\ UNCHANGED <<env, fsvars, starts, keops_version, build_path, use_OpenMP,
                   cpp_flags, unflushed, registry, libvars>>

\* ------------------------------------------------------ the end of a process
\* The process ends.  A buffer of f that never reached the file is written
\* when the interpreter shuts down in order (flushed), lost when it is killed.
Exit(flushed) ==
    /\ pc \in {"ready", "failed", "raised"}
    /\ pc' = "stopped"
    /\ fs_save' = IF unflushed # {} /\ flushed THEN unflushed ELSE fs_save
    /\ unflushed' = {}
    /\ keops_version' = V10
    /\ Unload
    /\ last' = [op |-> "exit"]
    /\ UNCHANGED <<env, fs_root, fs_version, fs_dirs, fs_files, starts>>

\* ------------------------------------------------- the imported module
\* a caller's set_build_folder(path, read_save_file, reset_all)
CallSetBuildFolder(path, read_save_file, reset_all, ok) ==
    /\ pc = "ready"
    /\ set_build_folder(path, read_save_file, reset_all, ok)
    /\ pc' = IF last'.out = "return" THEN "ready" ELSE "raised"
    /\ UNCHANGED <<env, starts, keops_version, jit_binary, use_cuda, use_OpenMP,
                   cpp_flags, cuda_available, gpu, warnings, libvars>>

\* The caller handles the exception of set_build_folder: the traceback and
\* with it the frame and f are released, and the buffer of f reaches the file.
ExceptionHandled ==
    /\ pc = "raised"
    /\ pc' = "ready"
    /\ fs_save' = IF unflushed # {} THEN unflushed ELSE fs_save
    /\ unflushed' = {}
    /\ last' = [op |-> "handled"]
    /\ UNCHANGED <<env, fs_root, fs_version, fs_dirs, fs_files, starts,
                   keops_version, modvars, regvars, libvars>>

\* The registry's get_kernel: a handle of the signature is reused, or the
\* artifact under save_folder is built when missing, loaded and remembered.
get_kernel(sig) ==
    /\ pc = "ready"
    /\ IF \E h \in registry : h.sig = sig
       THEN UNCHANGED <<registry, fs_files>>
       ELSE /\ registry' = registry \cup {[sig |-> sig, path |-> save_folder]}
            /\ fs_files' = fs_files \cup {[dir |-> save_folder, name |-> sig]}
    /\ last' = [op |-> "get_kernel", sig |-> sig]
    /\ UNCHANGED <<env, fs_root, fs_version, fs_save, fs_dirs, pc, starts,
                   keops_version, modvars, unflushed, save_folder, libvars>>

\* --------------------------------------------------------- init_cudalibs
\* line 159: a thread calls init_cudalibs and tests the flag
CheckFlag(t) ==
    /\ pc = "ready" /\ tpc[t] = "idle"
    /\ tpc' = [tpc EXCEPT ![t] = IF ~init_cudalibs_flag THEN "nvrtc" ELSE "idle"]
    /\ UNCHANGED <<env, fsvars, pc, starts, keops_version, modvars, unflushed,
                   regvars, init_cudalibs_flag, loaded, last>>

\* what follows the load of a library in lines 162-165
AfterLoad(lib) ==
    IF lib = "nvrtc" THEN "cuda" ELSE IF lib = "cuda" THEN "cudart" ELSE "set_flag"

\* lines 162-164: CDLL(find_library(lib), mode=RTLD_GLOBAL)
LoadLib(t) ==
    /\ pc = "ready" /\ tpc[t] \in {"nvrtc", "cuda", "cudart"}
    /\ loaded' = [loaded EXCEPT ![tpc[t]] = @ + 1]
    /\ tpc' = [tpc EXCEPT ![t] = AfterLoad(tpc[t])]
    /\ UNCHANGED <<env, fsvars, pc, starts, keops_version, modvars, unflushed,
                   regvars, init_cudalibs_flag, last>>

\* line 165
SetFlag(t) ==
    /\ pc = "ready" /\ tpc[t] = "set_flag"
    /\ init_cudalibs_flag' = TRUE
    /\ tpc' = [tpc EXCEPT ![t] = "idle"]
    /\ UNCHANGED <<env, fsvars, pc, starts, keops_version, modvars, unflushed,
                   regvars, loaded, last>>

NextImport ==
    \/ \E v \in Versions : Start(v)
    \/ InitCache
    \/ ImportSetBuildFolder
    \/ AssembleFlags
    \/ ProbeCuda
    \/ \E flushed \in BOOLEAN : Exit(flushed)

Spec == Init /\ [][NextImport]_vars


InitBuild == env \in ShippedEnvs /\ InitFS /\ InitProcess

NextBuild ==
    \/ \E v \in Versions : Start(v)
    \/ InitCache
    \/ ImportSetBuildFolder
    \/ AssembleFlags
    \/ ProbeCuda
    \/ \E path \in {None, ""} \cup UserPaths, read_save_file \in BOOLEAN,
          reset_all \in BOOLEAN, ok \in BOOLEAN :
            CallSetBuildFolder(path, read_save_file, reset_all, ok)
    \/ ExceptionHandled
    \/ \E sig \in Signatures : get_kernel(sig)
    \/ \E flushed \in BOOLEAN : Exit(flushed)

SpecBuild == InitBuild /\ [][NextBuild]_vars

\* a machine with cuda
InitCudalibs ==
    /\ env \in {e \in ShippedEnvs : e.libs = {"cuda", "nvrtc"}}
    /\ InitFS
    /\ InitProcess

NextCudalibs ==
    \/ \E v \in Versions : Start(v)
    \/ InitCache
    \/ ImportSetBuildFolder
    \/ AssembleFlags
    \/ ProbeCuda
    \/ \E t \in Threads : CheckFlag(t)
    \/ \E t \in Threads : LoadLib(t)
    \/ \E t \in Threads : SetFlag(t)

SpecCudalibs == InitCudalibs /\ [][NextCudalibs]_vars

\* ------------------------------------------------------------ properties
IsSetBuildFolder == last.op = "set_build_folder"
IsInitCache == last.op = "init_cache" /\ pc = "set_build_folder"
UnderCacheRoot(fs) == {f \in fs : f.dir \in UnderCache}

\* C1: when the cache folder exists and its stamp holds another version than
\* the running one, the initialisation deletes every entry of the cache
\* folder and leaves only the stamp file, holding the running version.
VersionDriftWipes ==
    (IsInitCache /\ last.root /\ last.stamp # {}
        /\ rstrip(Content(last.stamp)) # keops_version)
    => /\ fs_root
       /\ fs_version = {keops_version}
       /\ fs_save = {}
       /\ fs_dirs \cap UnderCache = {}
       /\ UnderCacheRoot(fs_files) = {}

\* C1's case: a cache folder stamped 1.0 with a saved location and binaries,
\* initialised by version 1.1
VersionDriftWitness ==
    /\ IsInitCache /\ last.root /\ last.stamp = {V10} /\ keops_version = V11
    /\ last.save # {} /\ UnderCacheRoot(last.files) # {}
    /\ fs_version = {V11}

\* C2: when the cache folder exists and its stamp, trailing whitespace
\* stripped, equals the running version, the initialisation changes nothing
\* of the file system, at the first start and at every later one.
InitIdempotent ==
    (IsInitCache /\ last.root /\ last.stamp # {}
        /\ rstrip(Content(last.stamp)) = keops_version)
    => /\ fs_root = last.root
       /\ fs_version = last.stamp
       /\ fs_save = last.save
       /\ fs_dirs = last.dirs
       /\ fs_files = last.files

\* C2's case: a second start in a row on a stamp of the running version, with
\* entries in the cache folder that stay
InitIdempotentWitness ==
    /\ IsInitCache /\ starts = 2 /\ last.root
    /\ last.stamp # {} /\ rstrip(Content(last.stamp)) = keops_version
    /\ fs_save # {} /\ fs_version = last.stamp

\* the path argument counts as given when it is neither None nor empty
Given(path) == path # None /\ path # ""

SavedLocationHoldsBuildPath ==
    IsSetBuildFolder => fs_save = {build_path}

\* C5 as claimed: after a set_build_folder call that changes build_path, for
\* every value of reset_all, the registry's reset has run: no handle loaded
\* under the previous build path remains.
HandlesDroppedOnChange ==
    (IsSetBuildFolder /\ last.out = "return" /\ build_path # last.old_path)
    => \A h \in registry : h.path # last.old_path

\* C5 as amended: a call with reset_all = True that got past os.makedirs has
\* run the registry's reset with the new build folder, whether build_path
\* changed or not and whether the launcher build then failed or not; a call
\* with reset_all = False leaves every handle in the registry.
HandlesDroppedOnResetAll ==
    /\ (IsSetBuildFolder /\ last.reset_all /\ last.out # "makedirs_error")
          => registry = {} /\ save_folder = build_path
    /\ (IsSetBuildFolder /\ ~last.reset_all)
          => registry = last.old_registry

\* C5's case: a handle loaded under the previous build path is dropped by a
\* call with reset_all = True that moves the build path
HandlesDroppedWitness ==
    /\ IsSetBuildFolder /\ last.reset_all /\ last.out = "return"
    /\ last.old_registry # {} /\ build_path # last.old_path
    /\ registry = {}

\* C6: whenever GPU mode is enabled, jit_binary is the launcher of the
\* current build path.
LauncherFollowsBuildPath ==
    (pc = "ready" /\ use_cuda) => jit_binary = join(build_path, launcher_name)

UnavailableWarnings == {"cuda_libs_not_detected", "no_gpu_found"}
Emitted(ws) == {i \in 1..Len(warnings) : warnings[i] \in ws}
Capable == {"cuda", "nvrtc"} \subseteq env.libs /\ env.nGpus > 0

\* C7: the capability is available iff both libraries resolve and the device
\* count is positive; for every setting of use_cuda and every capability the
\* detection ends without error with GPU mode enabled iff the user enabled it
\* and the capability is available; disabled while available emits the
\* informational diagnostic, enabled while unavailable is switched off with a
\* diagnostic.
GpuPrecedence ==
    last.op = "cuda" =>
        /\ pc = "ready"
        /\ cuda_available = Capable
        /\ use_cuda = (env.use_cuda /\ Capable)
        /\ (~env.use_cuda /\ Capable)
              => Emitted({"cuda_available_but_disabled"}) # {}
        /\ (env.use_cuda /\ ~Capable)
              => ~use_cuda /\ Emitted(UnavailableWarnings) # {}

\* C7's case: the user enabled GPU mode, both libraries resolve and no device
\* is found
GpuPrecedenceWitness ==
    /\ last.op = "cuda" /\ env.use_cuda
    /\ env.libs = {"cuda", "nvrtc"} /\ env.nGpus = 0
    /\ ~use_cuda /\ Emitted(UnavailableWarnings) # {}

\* C8: when GPU mode is requested and one of the two libraries does not
\* resolve, the detection ends without exception in cpu only mode, every GPU
\* setting is None and exactly one unavailability diagnostic was emitted in
\* the process.
GpuUnavailableDowngrade ==
    /\ last.op = "cuda" => pc = "ready"
    /\ (pc = "ready" /\ env.use_cuda /\ ~({"cuda", "nvrtc"} \subseteq env.libs))
       => /\ ~use_cuda
          /\ \A k \in DOMAIN gpu : gpu[k] = None
          /\ jit_binary = None
          /\ Cardinality(Emitted(UnavailableWarnings)) = 1

\* C8's case: GPU mode requested on a machine without the driver library
GpuUnavailableWitness ==
    /\ pc = "ready" /\ env.use_cuda /\ env.libs = {"nvrtc"}
    /\ ~use_cuda /\ jit_binary = None

FlagsAssembled == pc \in {"cuda", "ready"}
LastFlags(n) == SubSeq(cpp_flags, Len(cpp_flags) - n + 1, Len(cpp_flags))

\* C9 as claimed: in the assembled cpp_flags the base flags come first and
\* the platform link flags (on Darwin -undefined dynamic_lookup) are the last
\* flags of the string.
PlatformFlagsLast ==
    FlagsAssembled =>
        /\ SubSeq(cpp_flags, 1, 4) = <<"-shared", "-fPIC", "-O3", "-std=c++11">>
        /\ env.system = "Darwin" => LastFlags(2) = <<"-undefined", "dynamic_lookup">>

\* C9 as amended: in the assembled cpp_flags the base flags come first, the
\* include flag -I<bindings_source_dir> is the last flag on every platform,
\* and on Darwin -undefined dynamic_lookup comes right before it, after the
\* OpenMP flags; on other platforms no platform link flag is added.
IncludeFlagLast ==
    FlagsAssembled =>
        /\ SubSeq(cpp_flags, 1, 4) = <<"-shared", "-fPIC", "-O3", "-std=c++11">>
        /\ LastFlags(1) = <<"-I" \o bindings_source_dir>>
        /\ env.system = "Darwin"
              => LastFlags(3) = <<"-undefined", "dynamic_lookup",
                             "-I" \o bindings_source_dir>>
        /\ env.system # "Darwin"
              => \A i \in 1..Len(cpp_flags) : cpp_flags[i] # "-undefined"

\* C9's case: the flags of a Mac with the OpenMP flags in them
IncludeFlagLastWitness ==
    /\ FlagsAssembled /\ env.system = "Darwin"
    /\ \E i \in 1..Len(cpp_flags) : cpp_flags[i] = "-lomp"
    /\ LastFlags(1) = <<"-I" \o bindings_source_dir>>

\* C10: over any calls of init_cudalibs, also from several threads, each of
\* the three libraries is loaded at most once, and exactly once when the flag
\* is true.
LoadedOnce ==
    /\ \A l \in DOMAIN loaded : loaded[l] <= 1
    /\ init_cudalibs_flag => \A l \in DOMAIN loaded : loaded[l] = 1

OpenMPFlags == {"-fopenmp", "-fno-fat-lto-objects", "-Xclang", "-lomp"}
HasOpenMPFlags == \E i \in 1..Len(cpp_flags) : cpp_flags[i] \in OpenMPFlags
MarkerSet == env.KMP_DUPLICATE_LIB_OK = "TRUE"

\* C11: the flag assembly ends without error for every use_OpenMP, platform
\* and environment marker, also with use_OpenMP set to False by the user:
\* cpp_flags is produced, the OpenMP flags are in it iff use_OpenMP was
\* requested and the platform is not Darwin or the marker is TRUE, and on
\* Darwin without the marker use_OpenMP ends false with one diagnostic.
FlagAssemblyCompletes ==
    last.op = "cpp_flags" =>
        /\ pc = "cuda"
        /\ LastFlags(1) = <<"-I" \o bindings_source_dir>>
        /\ HasOpenMPFlags
              <=> (env.use_OpenMP /\ (env.system # "Darwin" \/ MarkerSet))
        /\ (env.use_OpenMP /\ env.system = "Darwin" /\ ~MarkerSet)
              => ~use_OpenMP /\ warnings = <<"openmp_disabled_on_mac">>

\* C12: from every state of the cache folder (absent, stamped with the running
\* or another version, present without a stamp) the initialisation ends, and
\* the folder exists with a stamp equal to the running version before the
\* build path is resolved.
StampAlwaysCurrent ==
    last.op = "init_cache" =>
        /\ pc = "set_build_folder"
        /\ fs_root
        /\ fs_version # {}
        /\ rstrip(Content(fs_version)) = keops_version
====
